---- MODULE Spec2Model ----
(***************************************************************************)
(* A model of the paper-ingestion program: the Preprocessor of             *)
(* src/src/data_preprocessing.py (header/footer removal, section window,   *)
(* paragraph segmentation, caption and citation filters, the per-document  *)
(* loop of process_pdfs) and the EmbeddingDBFromData store of              *)
(* src/src/embedderDB.py (create, save, load, query).                      *)
(*                                                                         *)
(* A Python str is modelled as a sequence of one-character strings, so     *)
(* that split, strip, slicing and the regular expressions are computed     *)
(* character by character, as the code computes them.  Positions are       *)
(* 1-based; 0 stands for "no match" (Python's None).                       *)
(***************************************************************************)
EXTENDS Integers, Sequences, FiniteSets, TLC

VARIABLES
    \* ---- Preprocessor (data_preprocessing.py) ----
    directory,      \* the files os.walk yields: the environment of enumerate_files
    pdf_files,      \* self.pdf_files
    other_files,    \* self.other_files
    data,           \* self.data, the run buffer
    pc,             \* position in enumerate_files / process_pdfs
    file_i,         \* index in pdf_files of the document of the outer loop
    documents,      \* the pages loader.load() returned for that document
    page_i,         \* index in documents of the page of the inner loop
    paper,          \* (title, authors, year, citation) of that document
    error,          \* the exception that ended process_pdfs, "none" if none
    log,            \* what process_pdfs did, one entry per step, in order
    \* ---- EmbeddingDBFromData (embedderDB.py) ----
    index_name,     \* self.index_name
    data_variable,  \* self.data_variable
    index,          \* self.index: NoIndex (None) or the FAISS store
    databases,      \* the "databases" directory: index name -> saved store
    last,           \* the last store operation and what it returned
    \* ---- one call of a pure method ----
    arg,            \* its arguments
    ret             \* <<>> before the call, <<result>> after it

vars == <<directory, pdf_files, other_files, data, pc, file_i, documents, page_i,
          paper, error, log, index_name, data_variable, index, databases, last,
          arg, ret>>

pipelineVars == <<directory, pdf_files, other_files, data, pc, file_i, documents,
                  page_i, paper, error, log>>
storeVars == <<index_name, data_variable, index, databases, last>>
callVars == <<arg, ret>>

(***************************************************************************)
(* Python str primitives                                                   *)
(***************************************************************************)
UpperLetters == <<"A", "B", "C", "D", "E", "F", "G", "H", "I", "J", "K", "L", "M", "N", "O", "P", "Q", "R", "S", "T", "U", "V", "W", "X", "Y", "Z", "Ó">>
LowerLetters == <<"a", "b", "c", "d", "e", "f", "g", "h", "i", "j", "k", "l", "m", "n", "o", "p", "q", "r", "s", "t", "u", "v", "w", "x", "y", "z", "ó">>

\* re.IGNORECASE: characters are compared after case folding.  The letters of
\* the patterns of lines 191, 193 and 261 have no other case variants among
\* the characters a string of this module can hold (U+0130 and U+0131 for i,
\* U+017F for s cannot be held).
lower(c) ==
    IF \E i \in 1..Len(UpperLetters) : UpperLetters[i] = c
    THEN LowerLetters[CHOOSE i \in 1..Len(UpperLetters) : UpperLetters[i] = c]
    ELSE c

\* \s of the re module on a str pattern, and the characters str.strip() and
\* str.split() take for whitespace (str.isspace): space, \t, \n, \r, \f,
\* U+000B, U+001C to U+001F, U+0085, U+00A0 and U+1680.  The other spaces of
\* Unicode (U+2000 to U+200A, U+2028, U+2029, U+202F, U+205F, U+3000) are
\* whitespace for Python as well; no string of this module can hold them.
IsSpace(c) ==
    c \in {" ", "\n", "\t", "\r", "\f",
           "", "", "", "", "", "", " ", " "}

\* \d of the re module on a str pattern (no re.ASCII): the decimal digits of
\* Unicode (category Nd), ten to a row from the zero of each script: 0 to 9,
\* then the digits that start at U+06F0, U+07C0, U+09E6, U+0AE6, U+0BE6,
\* U+0CE6, U+0DE6, U+0ED0, U+1090, U+17E0, U+19D0, U+1A80, U+1A90, U+1BB0,
\* U+A8D0, U+A9D0, U+A9F0, U+ABF0.  The decimal digits of the other scripts
\* (U+0660, U+0966, U+FF10, ...) are digits for Python as well; no string of
\* this module can hold them.
IsDigit(c) ==
    c \in {"0", "1", "2", "3", "4", "5", "6", "7", "8", "9",
           "۰", "۱", "۲", "۳", "۴", "۵", "۶", "۷", "۸", "۹",
           "߀", "߁", "߂", "߃", "߄", "߅", "߆", "߇", "߈", "߉",
           "০", "১", "২", "৩", "৪", "৫", "৬", "৭", "৮", "৯",
           "૦", "૧", "૨", "૩", "૪", "૫", "૬", "૭", "૮", "૯",
           "௦", "௧", "௨", "௩", "௪", "௫", "௬", "௭", "௮", "௯",
           "೦", "೧", "೨", "೩", "೪", "೫", "೬", "೭", "೮", "೯",
           "෦", "෧", "෨", "෩", "෪", "෫", "෬", "෭", "෮", "෯",
           "໐", "໑", "໒", "໓", "໔", "໕", "໖", "໗", "໘", "໙",
           "႐", "႑", "႒", "႓", "႔", "႕", "႖", "႗", "႘", "႙",
           "០", "១", "២", "៣", "៤", "៥", "៦", "៧", "៨", "៩",
           "᧐", "᧑", "᧒", "᧓", "᧔", "᧕", "᧖", "᧗", "᧘", "᧙",
           "᪀", "᪁", "᪂", "᪃", "᪄", "᪅", "᪆", "᪇", "᪈", "᪉",
           "᪐", "᪑", "᪒", "᪓", "᪔", "᪕", "᪖", "᪗", "᪘", "᪙",
           "᮰", "᮱", "᮲", "᮳", "᮴", "᮵", "᮶", "᮷", "᮸", "᮹",
           "꣐", "꣑", "꣒", "꣓", "꣔", "꣕", "꣖", "꣗", "꣘", "꣙",
           "꧐", "꧑", "꧒", "꧓", "꧔", "꧕", "꧖", "꧗", "꧘", "꧙",
           "꧰", "꧱", "꧲", "꧳", "꧴", "꧵", "꧶", "꧷", "꧸", "꧹",
           "꯰", "꯱", "꯲", "꯳", "꯴", "꯵", "꯶", "꯷", "꯸", "꯹"}

Last(s) == s[Len(s)]
Front(s) == SubSeq(s, 1, Len(s) - 1)
\* s[i:] with a 1-based i.
From(s, i) == SubSeq(s, i, Len(s))

RECURSIVE lstrip(_)
lstrip(s) == IF s # <<>> /\ IsSpace(Head(s)) THEN lstrip(Tail(s)) ELSE s

RECURSIVE rstrip(_)
rstrip(s) == IF s # <<>> /\ IsSpace(Last(s)) THEN rstrip(Front(s)) ELSE s

\* str.strip()
strip(s) == rstrip(lstrip(s))

\* The first position of character c in s, 0 if there is none.
FirstIndex(s, c) ==
    IF \E i \in 1..Len(s) : s[i] = c
    THEN CHOOSE i \in 1..Len(s) : s[i] = c /\ \A j \in 1..(i - 1) : s[j] # c
    ELSE 0

\* str.split(sep) for a one-character sep: never an empty list.
RECURSIVE str_split(_, _)
str_split(s, sep) ==
    LET i == FirstIndex(s, sep)
    IN  IF i = 0 THEN <<s>>
        ELSE <<SubSeq(s, 1, i - 1)>> \o str_split(From(s, i + 1), sep)

\* sep.join(parts)
RECURSIVE str_join(_, _)
str_join(parts, sep) ==
    IF parts = <<>> THEN <<>>
    ELSE IF Len(parts) = 1 THEN parts[1]
    ELSE parts[1] \o <<sep>> \o str_join(Tail(parts), sep)

\* Whether keyword kw occurs in s at position i, ignoring case.
MatchAt(s, kw, i) ==
    /\ i >= 1
    /\ i + Len(kw) - 1 <= Len(s)
    /\ \A j \in 1..Len(kw) : lower(s[i + j - 1]) = lower(kw[j])

\* re.compile("(k1|k2|...)", re.IGNORECASE).search(s): the start of the leftmost
\* match, scanning the positions from the left; 0 for None.
RECURSIVE re_search_from(_, _, _)
re_search_from(kws, s, i) ==
    IF i > Len(s) THEN 0
    ELSE IF \E kw \in kws : MatchAt(s, kw, i) THEN i
    ELSE re_search_from(kws, s, i + 1)

re_search(kws, s) == re_search_from(kws, s, 1)

\* Counter(items).most_common(1)[0][0]: the item with the highest count, the
\* first one inserted among equals.
Count(items, x) == Cardinality({i \in 1..Len(items) : items[i] = x})

most_common(items) ==
    items[CHOOSE i \in 1..Len(items) :
            /\ \A j \in 1..Len(items) : Count(items, items[j]) <= Count(items, items[i])
            /\ \A j \in 1..(i - 1) : Count(items, items[j]) < Count(items, items[i])]

Max(S) == CHOOSE x \in S : \A y \in S : y <= x

(***************************************************************************)
(* Preprocessor: the pure methods                                          *)
(***************************************************************************)
\* What a method call gives: a value, or the exception it raised.
Returned(v) == [error |-> "none", value |-> v]
Raised(e) == [error |-> e, value |-> <<>>]

\* [f(x) for x in xs]
MapSeq(xs, f(_)) == [i \in 1..Len(xs) |-> f(xs[i])]

FirstLine(doc) == Head(str_split(doc, "\n"))
LastLine(doc) == Last(str_split(doc, "\n"))

\* Lines 71-72: "if doc.split('\n')" is true of every page, the empty page
\* included (''.split('\n') is ['']), so every page contributes a line.
first_lines(all_texts) == MapSeq(all_texts, FirstLine)
last_lines(all_texts) == MapSeq(all_texts, LastLine)

\* Preprocessor.remove_headers_and_footers.  most_common(1)[0] of no page and
\* lines[-1] of no line raise IndexError.
remove_headers_and_footers(text, all_texts) ==
    LET lines == str_split(text, "\n")
    IN  IF all_texts = <<>> THEN Raised("IndexError")
        ELSE
        LET common_first == most_common(first_lines(all_texts))
            common_last == most_common(last_lines(all_texts))
            lines1 == IF strip(lines[1]) = strip(common_first) THEN Tail(lines) ELSE lines
        IN  IF lines1 = <<>> THEN Raised("IndexError")
            ELSE
            LET lines2 == IF strip(Last(lines1)) = strip(common_last)
                          THEN Front(lines1) ELSE lines1
            IN  Returned(str_join(lines2, "\n"))

Abstract == <<"A", "b", "s", "t", "r", "a", "c", "t">>
Resumen == <<"R", "e", "s", "u", "m", "e", "n">>
Introduction == <<"I", "n", "t", "r", "o", "d", "u", "c", "t", "i", "o", "n">>
Introduccion == <<"I", "n", "t", "r", "o", "d", "u", "c", "c", "i", "ó", "n">>
References == <<"R", "e", "f", "e", "r", "e", "n", "c", "e", "s">>
Bibliography == <<"B", "i", "b", "l", "i", "o", "g", "r", "a", "p", "h", "y">>
Referencias == <<"R", "e", "f", "e", "r", "e", "n", "c", "i", "a", "s">>

\* Line 191.
abstract_regex == {Abstract, Resumen, Introduction, Introduccion}
\* Line 193.
references_regex == {References, Bibliography, Referencias}

\* str.split() without a separator: the pieces between the runs of whitespace,
\* none of them empty.
RECURSIVE str_split_whitespace(_)
str_split_whitespace(s) ==
    LET t == lstrip(s)
        spaces == {i \in 1..Len(t) : IsSpace(t[i])}
    IN  IF t = <<>> THEN <<>>
        ELSE IF spaces = {} THEN <<t>>
        ELSE LET e == CHOOSE i \in spaces : \A j \in spaces : i <= j
             IN  <<SubSeq(t, 1, e - 1)>> \o str_split_whitespace(From(t, e + 1))

\* The elements SequenceMatcher drops from its index of b (autojunk, on by
\* default): in a b of 200 elements or more, the ones that occur more than
\* len(b) // 100 + 1 times.
bpopular(b) ==
    IF Len(b) >= 200
    THEN {b[j] : j \in {j \in 1..Len(b) : Count(b, b[j]) > (Len(b) \div 100) + 1}}
    ELSE {}

\* The length of the longest block a[i:i+k] == b[j:j+k] within a[..ahi] and
\* b[..bhi] that holds no element of popular.
RECURSIVE common_at(_, _, _, _, _, _, _)
common_at(a, b, i, j, ahi, bhi, popular) ==
    IF i <= ahi /\ j <= bhi /\ a[i] = b[j] /\ b[j] \notin popular
    THEN 1 + common_at(a, b, i + 1, j + 1, ahi, bhi, popular)
    ELSE 0

\* How far a block that starts at a[i], b[j] extends to the left, and one that
\* ends at a[i], b[j] to the right, popular elements included.
RECURSIVE extend_left(_, _, _, _, _, _)
extend_left(a, b, i, j, alo, blo) ==
    IF i > alo /\ j > blo /\ a[i - 1] = b[j - 1]
    THEN 1 + extend_left(a, b, i - 1, j - 1, alo, blo)
    ELSE 0

RECURSIVE extend_right(_, _, _, _, _, _)
extend_right(a, b, i, j, ahi, bhi) ==
    IF i < ahi /\ j < bhi /\ a[i + 1] = b[j + 1]
    THEN 1 + extend_right(a, b, i + 1, j + 1, ahi, bhi)
    ELSE 0

\* difflib.SequenceMatcher.find_longest_match on a[alo..ahi] and b[blo..bhi]
\* (1-based, both ends included), isjunk being None: the longest matching
\* block of elements that are not popular, the one that starts earliest in a
\* and, of those, earliest in b, then extended to both sides as far as the
\* elements match.  When there is no such block the extension starts from the
\* empty block at (alo, blo).
find_longest_match(a, b, alo, ahi, blo, bhi) ==
    LET popular == bpopular(b)
        size(i, j) == common_at(a, b, i, j, ahi, bhi, popular)
        k == Max({size(i, j) : i \in alo..ahi, j \in blo..bhi} \cup {0})
    IN  IF k = 0
        THEN [a |-> alo, b |-> blo,
              size |-> extend_right(a, b, alo - 1, blo - 1, ahi, bhi)]
        ELSE LET i == CHOOSE i \in alo..ahi :
                          /\ \E j \in blo..bhi : size(i, j) = k
                          /\ \A h \in alo..(i - 1) : \A j \in blo..bhi : size(h, j) < k
                 j == CHOOSE j \in blo..bhi :
                          /\ size(i, j) = k
                          /\ \A h \in blo..(j - 1) : size(i, h) < k
                 left == extend_left(a, b, i, j, alo, blo)
                 right == extend_right(a, b, i + k - 1, j + k - 1, ahi, bhi)
             IN  [a |-> i - left, b |-> j - left, size |-> k + left + right]

\* The sum of the sizes of the blocks SequenceMatcher.get_matching_blocks()
\* finds in a[alo..ahi] and b[blo..bhi]: the longest block, then the same to
\* its left and to its right.
RECURSIVE matching_blocks_size(_, _, _, _, _, _)
matching_blocks_size(a, b, alo, ahi, blo, bhi) ==
    LET x == find_longest_match(a, b, alo, ahi, blo, bhi)
    IN  IF x.size = 0 THEN 0
        ELSE x.size
             + matching_blocks_size(a, b, alo, x.a - 1, blo, x.b - 1)
             + matching_blocks_size(a, b, x.a + x.size, ahi, x.b + x.size, bhi)

\* The number of matches SequenceMatcher(None, a, b).ratio() counts.
matches(a, b) == matching_blocks_size(a, b, 1, Len(a), 1, Len(b))

\* Preprocessor.is_own_citation; threshold is in hundredths, and
\* SequenceMatcher.ratio() is 2.0 * matches / length, 1.0 when length is 0.
is_own_citation(citation, own_citation, threshold) ==
    LET citation_normalized == str_join(str_split_whitespace(citation), " ")
        own_citation_normalized == str_join(str_split_whitespace(own_citation), " ")
        length == Len(citation_normalized) + Len(own_citation_normalized)
    IN  IF length = 0 THEN 100 > threshold
        ELSE 200 * matches(citation_normalized, own_citation_normalized)
                 > threshold * length

\* A mutant of parse_from_abstract_or_introduction: the window is not cut at
\* the reference keyword.
parse_keeps_references(text, own_citation, threshold) ==
    LET match_start == re_search(abstract_regex, text)
        match_end == re_search(references_regex, text)
    IN  IF match_start # 0
        THEN [text |-> From(text, match_start), stop |-> match_end # 0]
        ELSE [text |-> text, stop |-> match_end # 0]

\* A mutant of parse_from_abstract_or_introduction: a window that
\* is_own_citation takes for the paper's own citation is dropped.
parse_dropping_own_citation(text, own_citation, threshold) ==
    LET match_start == re_search(abstract_regex, text)
        match_end == re_search(references_regex, text)
        stop_processing == match_end # 0
        window == IF match_start # 0 /\ match_end # 0
                  THEN SubSeq(text, match_start, match_end - 1)
                  ELSE IF match_start # 0 THEN From(text, match_start)
                  ELSE text
    IN  IF is_own_citation(window, own_citation, threshold)
        THEN [text |-> <<>>, stop |-> stop_processing]
        ELSE [text |-> window, stop |-> stop_processing]

\* Preprocessor.parse_from_abstract_or_introduction.  own_citation and threshold
\* are parameters the body never reads.  text[a:b] of Python is empty when
\* b <= a, as SubSeq is.
parse_from_abstract_or_introduction(text, own_citation, threshold) ==
    LET match_start == re_search(abstract_regex, text)
        match_end == re_search(references_regex, text)
        stop_processing == match_end # 0
    IN  IF match_start # 0 /\ match_end # 0
        THEN [text |-> SubSeq(text, match_start, match_end - 1), stop |-> stop_processing]
        ELSE IF match_start # 0
        THEN [text |-> From(text, match_start), stop |-> stop_processing]
        ELSE [text |-> text, stop |-> stop_processing]

\* The end of the longest run of whitespace that starts right after position i.
RECURSIVE SpaceRunEnd(_, _)
SpaceRunEnd(s, i) ==
    IF i + 1 <= Len(s) /\ IsSpace(s[i + 1]) THEN SpaceRunEnd(s, i + 1) ELSE i

\* The end of the match of r'\.\s*\n' at position i, 0 if it does not match
\* there: \s* is greedy and backtracks to the last newline of the run.
ParagraphEndingAt(s, i) ==
    IF s[i] # "." THEN 0
    ELSE LET newlines == {j \in (i + 1)..SpaceRunEnd(s, i) : s[j] = "\n"}
         IN  IF newlines = {} THEN 0 ELSE Max(newlines)

\* paragraph_endings.split(s): the pieces between the matches, left to right.
RECURSIVE re_split_paragraphs(_)
re_split_paragraphs(s) ==
    LET starts == {i \in 1..Len(s) : ParagraphEndingAt(s, i) # 0}
    IN  IF starts = {} THEN <<s>>
        ELSE LET i == CHOOSE i \in starts : \A j \in starts : i <= j
             IN  <<SubSeq(s, 1, i - 1)>>
                 \o re_split_paragraphs(From(s, ParagraphEndingAt(s, i) + 1))

NonBlank(p) == strip(p) # <<>>

\* Preprocessor.split_into_paragraphs
split_into_paragraphs(text) ==
    MapSeq(SelectSeq(re_split_paragraphs(strip(text)), NonBlank), strip)

Figura == <<"F", "i", "g", "u", "r", "a">>
Table == <<"T", "a", "b", "l", "e">>
Figure == <<"F", "i", "g", "u", "r", "e">>
Fig == <<"F", "i", "g">>

\* The end of the longest run of digits that starts right after position i.
RECURSIVE DigitRunEnd(_, _)
DigitRunEnd(s, i) ==
    IF i + 1 <= Len(s) /\ IsDigit(s[i + 1]) THEN DigitRunEnd(s, i + 1) ELSE i

\* re.compile(r'^(Figura|Table|Figure|Fig)\s*\d+\.', re.IGNORECASE).match(s):
\* a label, any whitespace, at least one digit, then a period.
figure_pattern_match(s) ==
    \E kw \in {Figura, Table, Figure, Fig} :
        /\ MatchAt(s, kw, 1)
        /\ LET sp == SpaceRunEnd(s, Len(kw))
               dg == DigitRunEnd(s, sp)
           IN  dg > sp /\ dg + 1 <= Len(s) /\ s[dg + 1] = "."

NotFigureOrTable(para) == ~figure_pattern_match(strip(para))

\* Preprocessor.remove_figure_or_table_paragraphs
remove_figure_or_table_paragraphs(paragraphs) == SelectSeq(paragraphs, NotFigureOrTable)

\* Whether s ends with a year in parentheses: \(\d{4}\) at the end.
EndsWithYear(s) ==
    LET n == Len(s)
    IN  /\ n >= 6
        /\ s[n] = ")"
        /\ s[n - 5] = "("
        /\ \A j \in (n - 4)..(n - 1) : IsDigit(s[j])

\* citation_regex.match(s) of lines 277-282.  With re.DOTALL the prefix
\* ^\s*(?:\d+\.\s*)?.*? matches any text, so the pattern matches exactly when,
\* after the trailing whitespace and one optional period, s ends with (dddd).
citation_regex_match(s) ==
    LET r == rstrip(s)
    IN  \/ EndsWithYear(r)
        \/ r # <<>> /\ Last(r) = "." /\ EndsWithYear(Front(r))

\* A mutant of append_sentences: the counter advances on every unit, the
\* dropped ones included.
RECURSIVE append_sentences_counting_dropped(_, _, _, _)
append_sentences_counting_dropped(buf, sentences, phrase_number, meta) ==
    IF sentences = <<>> THEN buf
    ELSE LET cleaned_sentence == strip(Head(sentences))
         IN  IF cleaned_sentence # <<>> /\ ~citation_regex_match(cleaned_sentence)
             THEN append_sentences_counting_dropped(
                      Append(buf, [sentence |-> cleaned_sentence,
                                   metadata |-> [title |-> meta.title,
                                                 authors |-> meta.authors,
                                                 year |-> meta.year,
                                                 citation_format_x |-> meta.citation,
                                                 phrase_number |-> phrase_number]]),
                      Tail(sentences), phrase_number + 1, meta)
             ELSE append_sentences_counting_dropped(buf, Tail(sentences),
                                                    phrase_number + 1, meta)

\* The loop of lines 284-300: buf is self.data, phrase_number the counter.
RECURSIVE append_sentences(_, _, _, _)
append_sentences(buf, sentences, phrase_number, meta) ==
    IF sentences = <<>> THEN buf
    ELSE LET cleaned_sentence == strip(Head(sentences))
         IN  IF cleaned_sentence # <<>> /\ ~citation_regex_match(cleaned_sentence)
             THEN append_sentences(
                      Append(buf, [sentence |-> cleaned_sentence,
                                   metadata |-> [title |-> meta.title,
                                                 authors |-> meta.authors,
                                                 year |-> meta.year,
                                                 citation_format_x |-> meta.citation,
                                                 phrase_number |-> phrase_number]]),
                      Tail(sentences), phrase_number + 1, meta)
             ELSE append_sentences(buf, Tail(sentences), phrase_number, meta)

\* Line 284: the counter starts at 1 in every call.
first_phrase_number == 1

\* A mutant of extract_sentences_and_metadata: each call starts a new buffer.
extract_sentences_and_metadata_new_buffer(buf, text, meta) ==
    LET sentences == remove_figure_or_table_paragraphs(split_into_paragraphs(text))
    IN  append_sentences(<<>>, sentences, first_phrase_number, meta)

\* Preprocessor.extract_sentences_and_metadata: self.data after the call, buf
\* being self.data before it; meta is (title, authors, year, citation).
extract_sentences_and_metadata(buf, text, meta) ==
    LET sentences == remove_figure_or_table_paragraphs(split_into_paragraphs(text))
    IN  append_sentences(buf, sentences, first_phrase_number, meta)

(***************************************************************************)
(* The environment of a run: the files of the directory tree, what the     *)
(* document loader gives for each, and what the metadata extractor answers *)
(***************************************************************************)
\* Two pages with a running header and footer; both pages hold prose.
paper_a ==
    [name |-> <<"a", ".", "p", "d", "f">>,
     corrupt |-> FALSE,
     pages |-> <<<<"H", "\n", "A", "b", "s", "t", "r", "a", "c", "t", "\n", "O", "n", "e", ".", "\n", "T", "w", "o", ".", "\n", "F">>,
               <<"H", "\n", "F", "i", "g", " ", "1", ".", " ", "C", "a", "p", ".", "\n", "T", "h", "r", "e", "e", ".", "\n", "F", "o", "u", "r", " ", "(", "2", "0", "1", "9", ")", ".", "\n", "F">>>>,
     meta |-> [title |-> "Ta", authors |-> <<"au_a">>, year |-> "2020", citation |-> <<"c", "A">>]]

\* Three pages; the reference section starts on the second.
paper_b ==
    [name |-> <<"b", ".", "p", "d", "f">>,
     corrupt |-> FALSE,
     pages |-> <<<<"I", "n", "t", "r", "o", "d", "u", "c", "t", "i", "o", "n", "\n", "A", "l", "p", "h", "a", ".", "\n", "B", "e", "t", "a">>,
               <<"G", "a", "m", "m", "a", ".", "\n", "R", "e", "f", "e", "r", "e", "n", "c", "e", "s", "\n", "S", "m", "i", "t", "h", " ", "(", "2", "0", "1", "9", ")", ".">>,
               <<"D", "e", "l", "t", "a", ".">>>>,
     meta |-> [title |-> "Tb", authors |-> <<"au_b">>, year |-> "2021", citation |-> <<"c", "B">>]]

\* One page of one line.
paper_c ==
    [name |-> <<"c", ".", "p", "d", "f">>,
     corrupt |-> FALSE,
     pages |-> <<<<"S", "o", "l", "o">>>>,
     meta |-> [title |-> "Tc", authors |-> <<"au_c">>, year |-> "2022", citation |-> <<"c", "C">>]]

\* A file the loader cannot read.
paper_d ==
    [name |-> <<"d", ".", "p", "d", "f">>,
     corrupt |-> TRUE,
     pages |-> <<>>,
     meta |-> [title |-> "Td", authors |-> <<"au_d">>, year |-> "2023", citation |-> <<"c", "D">>]]

\* A PDF of no page.
paper_e ==
    [name |-> <<"e", ".", "p", "d", "f">>,
     corrupt |-> FALSE,
     pages |-> <<>>,
     meta |-> [title |-> "Te", authors |-> <<"au_e">>, year |-> "2024", citation |-> <<"c", "E">>]]

\* A file of another extension.
notes ==
    [name |-> <<"n", ".", "t", "x", "t">>,
     corrupt |-> FALSE,
     pages |-> <<>>,
     meta |-> [title |-> "", authors |-> <<"au_s">>, year |-> "", citation |-> <<>>]]

Files == {paper_a, paper_b, paper_c, paper_d, paper_e, notes}

\* At most this many files in the directory tree of a run.
MaxFiles == 3

FileNamed(path) == CHOOSE f \in Files : f.name = path

\* str.endswith
EndsWith(s, suffix) ==
    Len(s) >= Len(suffix) /\ SubSeq(s, Len(s) - Len(suffix) + 1, Len(s)) = suffix

\* The orders in which os.walk can yield up to MaxFiles distinct files.
Directories ==
    UNION {{d \in [1..n -> {f.name : f \in Files}] :
                \A i, j \in 1..n : i # j => d[i] # d[j]} : n \in 0..MaxFiles}

\* PyPDFLoader(pdf_file).load(): the page texts, or the loader's exception.
loader_load(pdf_file) ==
    IF FileNamed(pdf_file).corrupt THEN Raised("LoadError")
    ELSE Returned(FileNamed(pdf_file).pages)

\* classification_chain.invoke of line 150: the model's answer for the paper,
\* or an exception when the call fails.
chain_invoke(pdf_file, fails) ==
    IF fails THEN Raised("Exception") ELSE Returned(FileNamed(pdf_file).meta)

\* A mutant of extract_metadata_from_document: the answer obtained for the
\* first file of the run is given for every document.
extract_metadata_from_document_of_first(pdf_file, fails) ==
    LET output == chain_invoke(pdf_files[1], fails)
    IN  IF output.error # "none" THEN Raised("RuntimeError")
        ELSE Returned(output.value)

\* Preprocessor.extract_metadata_from_document: every exception of the chain
\* is re-raised as a RuntimeError (lines 148-154).
extract_metadata_from_document(pdf_file, fails) ==
    LET output == chain_invoke(pdf_file, fails)
    IN  IF output.error # "none" THEN Raised("RuntimeError")
        ELSE Returned(output.value)

NoPaper == [title |-> "", authors |-> <<>>, year |-> "", citation |-> <<>>]

\* One entry of the log of process_pdfs.
LogEntry(kind, f, p, stop, before, after) ==
    [kind |-> kind, file |-> f, page |-> p, stop |-> stop,
     before |-> before, after |-> after]

(***************************************************************************)
(* Preprocessor: enumerate_files and the loops of process_pdfs             *)
(***************************************************************************)
IsPdf(path) == EndsWith(path, <<".", "p", "d", "f">>)
IsOther(path) == ~IsPdf(path)

\* threshold=0.8 of line 177, in hundredths.
threshold_default == 80

PipelineInit ==
    /\ directory \in Directories
    /\ pdf_files = <<>>
    /\ other_files = <<>>
    /\ data = <<>>
    /\ pc = "constructed"
    /\ file_i = 0
    /\ documents = <<>>
    /\ page_i = 0
    /\ paper = NoPaper
    /\ error = "none"
    /\ log = <<>>

\* Preprocessor.enumerate_files, after which the caller calls process_pdfs: the
\* for statement of line 97 is about to take pdf_files[1].
enumerate_files ==
    /\ pc = "constructed"
    /\ pdf_files' = pdf_files \o SelectSeq(directory, IsPdf)
    /\ other_files' = other_files \o SelectSeq(directory, IsOther)
    /\ pc' = "for_pdf_file"
    /\ file_i' = 1
    /\ UNCHANGED <<directory, data, documents, page_i, paper, error, log>>

\* An exception nothing catches leaves process_pdfs (no try in lines 91-125).
Raise(e, p) ==
    /\ pc' = "raised"
    /\ error' = e
    /\ log' = Append(log, LogEntry(e, file_i, p, FALSE, Len(data), Len(data)))

\* Lines 97-102: the next file of the outer loop is loaded.
load_document ==
    /\ pc = "for_pdf_file"
    /\ file_i <= Len(pdf_files)
    /\ LET loaded == loader_load(pdf_files[file_i])
       IN  IF loaded.error # "none"
           THEN /\ Raise(loaded.error, 0)
                /\ UNCHANGED <<documents, page_i>>
           ELSE /\ documents' = loaded.value
                /\ page_i' = 0
                /\ pc' = "loaded"
                /\ log' = Append(log, LogEntry("load", file_i, 0, FALSE, Len(data), Len(data)))
                /\ UNCHANGED error
    /\ UNCHANGED <<directory, pdf_files, other_files, data, file_i, paper>>

\* Line 104: documents[0] of no page raises IndexError; the extractor answers
\* or fails.
extract_metadata ==
    /\ pc = "loaded"
    /\ IF documents = <<>>
       THEN /\ Raise("IndexError", 0)
            /\ UNCHANGED <<paper, page_i>>
       ELSE \E fails \in BOOLEAN :
              LET answer == extract_metadata_from_document(pdf_files[file_i], fails)
              IN  IF answer.error # "none"
                  THEN /\ Raise(answer.error, 0)
                       /\ UNCHANGED <<paper, page_i>>
                  ELSE /\ paper' = answer.value
                       /\ page_i' = 1
                       /\ pc' = "for_page"
                       /\ log' = Append(log, LogEntry("metadata", file_i, 0, FALSE,
                                                      Len(data), Len(data)))
                       /\ UNCHANGED error
    /\ UNCHANGED <<directory, pdf_files, other_files, data, file_i, documents>>

\* A mutant of after_page: the stop also leaves the outer loop, as the
\* disabled lines 122-125 would.
after_page_breaks_run(stop_processing) ==
    IF stop_processing
    THEN [pc |-> "done", file_i |-> file_i, page_i |-> page_i]
    ELSE IF page_i = Len(documents)
    THEN [pc |-> "for_pdf_file", file_i |-> file_i + 1, page_i |-> page_i]
    ELSE [pc |-> "for_page", file_i |-> file_i, page_i |-> page_i + 1]

\* Lines 118-120 and the two for statements: where the loops stand after a
\* page.  The break leaves the inner loop only; the outer loop goes on.
after_page(stop_processing) ==
    IF stop_processing \/ page_i = Len(documents)
    THEN [pc |-> "for_pdf_file", file_i |-> file_i + 1, page_i |-> page_i]
    ELSE [pc |-> "for_page", file_i |-> file_i, page_i |-> page_i + 1]

\* Lines 108-120: one page of the inner loop.
process_page ==
    /\ pc = "for_page"
    /\ LET text == documents[page_i]
           all_texts == documents
           cleaned_text == remove_headers_and_footers(text, all_texts)
       IN  IF cleaned_text.error # "none"
           THEN /\ Raise(cleaned_text.error, page_i)
                /\ UNCHANGED <<data, file_i, page_i>>
           ELSE LET parsed == parse_from_abstract_or_introduction(
                                  cleaned_text.value, paper.citation, threshold_default)
                    buf == IF parsed.text # <<>>
                           THEN extract_sentences_and_metadata(data, parsed.text, paper)
                           ELSE data
                    then == after_page(parsed.stop)
                IN  /\ data' = buf
                    /\ log' = Append(log, LogEntry("page", file_i, page_i, parsed.stop,
                                                   Len(data), Len(buf)))
                    /\ pc' = then.pc
                    /\ file_i' = then.file_i
                    /\ page_i' = then.page_i
                    /\ UNCHANGED error
    /\ UNCHANGED <<directory, pdf_files, other_files, documents, paper>>

\* The outer loop has no file left: process_pdfs returns.
process_pdfs_return ==
    /\ pc = "for_pdf_file"
    /\ file_i > Len(pdf_files)
    /\ pc' = "done"
    /\ UNCHANGED <<directory, pdf_files, other_files, data, file_i, documents,
                   page_i, paper, error, log>>

(***************************************************************************)
(* EmbeddingDBFromData                                                     *)
(***************************************************************************)
\* self.index is None, or holds one FAISS store: <<>> or <<store>>.
NoIndex == <<>>

\* The records a data_variable is made of: {'sentence': .., 'metadata': ..}.
Records ==
    {[sentence |-> "alpha", metadata |-> [title |-> "Ta", phrase_number |-> 1]],
     [sentence |-> "beta", metadata |-> [title |-> "Ta", phrase_number |-> 2]]}

\* At most this many records in a data_variable.
MaxData == 2
\* The largest k of a query.
MaxK == 2

DataLists == UNION {[1..n -> Records] : n \in 0..MaxData}
IndexNames == {"my_index", "other_index"}
Queries == {"beta", "delta"}

\* The embedder: a fixed vector (here of one coordinate) for each text.
embed(text) ==
    CASE text = "alpha" -> 0
      [] text = "beta" -> 4
      [] text = "delta" -> 2
      [] OTHER -> 9

\* Lines 64-70: one Document for each item, in order.
Document(item) == [page_content |-> item.sentence, metadata |-> item.metadata]

\* FAISS.from_documents: one vector and one docstore entry for each document,
\* duplicates included; no vector to size the index from raises IndexError.
FAISS_from_documents(docs) ==
    IF docs = <<>> THEN Raised("IndexError")
    ELSE Returned([docs |-> docs, vectors |-> [i \in 1..Len(docs) |-> embed(docs[i].page_content)]])

\* FAISS.similarity_search: the k nearest documents by L2 distance, nearest
\* first, the earlier entry first among equals.
similarity_search(store, query, k) ==
    LET n == Len(store.docs)
        dist(i) == (store.vectors[i] - embed(query)) * (store.vectors[i] - embed(query))
        rank(i) == Cardinality({j \in 1..n : dist(j) < dist(i) \/ (dist(j) = dist(i) /\ j < i)})
        m == IF k < n THEN k ELSE n
    IN  [r \in 1..m |-> store.docs[CHOOSE i \in 1..n : rank(i) = r - 1]]

\* A mutant of load_path: the load reads a fixed path, whatever the name.
load_path_fixed(name) == <<"databases", "my_index">>

\* Lines 84 and 105: the same path under "databases" for save and for load.
save_path(name) == <<"databases", name>>
load_path(name) == <<"databases", name>>

DatabasePaths == {<<"databases", name>> : name \in IndexNames}

StoreInit ==
    /\ index_name = "my_index"
    /\ data_variable = <<>>
    /\ index = NoIndex
    /\ databases = [p \in DatabasePaths |-> NoIndex]
    /\ last = [op |-> "init", ok |-> TRUE, results |-> <<>>, error |-> "none",
               failed_load |-> FALSE]

\* What a store operation leaves in last: the operation, what it returned or
\* raised, and whether a load of this store object has failed so far.
Outcome(op, ok, results, e) ==
    [op |-> op, ok |-> ok, results |-> results, error |-> e,
     failed_load |-> (op = "load" /\ ~ok) \/ (op # "init" /\ last.failed_load)]

\* EmbeddingDBFromData.__init__ (lines 29-46): a new store object over the
\* same "databases" directory.
construct(name, data_list) ==
    /\ index_name' = name
    /\ data_variable' = data_list
    /\ index' = NoIndex
    /\ last' = Outcome("init", TRUE, <<>>, "none")
    /\ UNCHANGED databases

\* EmbeddingDBFromData.create_embeddings_and_index: the index the call leaves,
\* or the exception of FAISS.from_documents, which nothing catches.
create_embeddings_and_index ==
    LET built == FAISS_from_documents(MapSeq(data_variable, Document))
    IN  /\ index' = IF built.error = "none" THEN <<built.value>> ELSE index
        /\ last' = Outcome("create", built.error = "none", <<>>, built.error)
        /\ UNCHANGED <<index_name, data_variable, databases>>

\* EmbeddingDBFromData.save_index_locally: False when there is no index or
\* when save_local raises (io_fails), True after the store is written.
save_index_locally(io_fails) ==
    /\ IF index # NoIndex /\ ~io_fails
       THEN /\ databases' = [databases EXCEPT ![save_path(index_name)] = index]
            /\ last' = Outcome("save", TRUE, <<>>, "none")
       ELSE /\ UNCHANGED databases
            /\ last' = Outcome("save", FALSE, <<>>, "none")
    /\ UNCHANGED <<index_name, data_variable, index>>

\* FAISS.load_local: the store saved at the path; an exception when there is
\* none or when the read fails.
FAISS_load_local(path, io_fails) ==
    IF io_fails \/ databases[path] = NoIndex THEN Raised("Exception")
    ELSE Returned(databases[path])

\* EmbeddingDBFromData.load_existing_index: self.index after the call and the
\* value returned; the exception is caught before self.index is assigned.
load_result(io_fails) ==
    LET loaded == FAISS_load_local(load_path(index_name), io_fails)
    IN  IF loaded.error = "none"
        THEN [index |-> loaded.value, ok |-> TRUE]
        ELSE [index |-> index, ok |-> FALSE]

load_existing_index(io_fails) ==
    /\ index' = load_result(io_fails).index
    /\ last' = Outcome("load", load_result(io_fails).ok, <<>>, "none")
    /\ UNCHANGED <<index_name, data_variable, databases>>

\* A mutant of query_result: no check of self.index before the search, so
\* None.similarity_search raises.
query_result_unguarded(idx, query, k) ==
    IF idx = NoIndex THEN Raised("AttributeError")
    ELSE Returned(MapSeq(similarity_search(idx[1], query, k),
                         LAMBDA doc : [sentence |-> doc.page_content,
                                       metadata |-> doc.metadata]))

\* The body of EmbeddingDBFromData.query_index on self.index = idx.
query_result(idx, query, k) ==
    IF idx = NoIndex THEN Returned(<<>>)
    ELSE Returned(MapSeq(similarity_search(idx[1], query, k),
                         LAMBDA doc : [sentence |-> doc.page_content,
                                       metadata |-> doc.metadata]))

\* EmbeddingDBFromData.query_index
query_index(query, k) ==
    /\ last' = Outcome("query", query_result(index, query, k).error = "none",
                       query_result(index, query, k).value,
                       query_result(index, query, k).error)
    /\ UNCHANGED <<index_name, data_variable, index, databases>>

(***************************************************************************)
(* Single calls of the pure methods, on inputs drawn from bounded sets      *)
(***************************************************************************)
RECURSIVE Concat(_)
Concat(parts) == IF parts = <<>> THEN <<>> ELSE Head(parts) \o Concat(Tail(parts))

\* The sequences of at most n elements of S.
SeqsUpTo(S, n) == UNION {[1..m -> S] : m \in 0..n}

\* Texts for parse_from_abstract_or_introduction: up to MaxParsePieces pieces.
MaxParsePieces == 3
ParsePieces ==
    {Abstract, <<"i", "n", "t", "r", "o", "d", "u", "c", "c", "i", "Ó", "n">>,
     References, <<"B", "I", "B", "L", "I", "O", "G", "R", "A", "P", "H", "Y">>,
     <<"x">>, <<"\n">>}
ParseTexts == {Concat(ps) : ps \in SeqsUpTo(ParsePieces, MaxParsePieces)}
OwnCitations == {<<>>, <<"c", "A">>, <<"x">>}
Thresholds == {50, threshold_default}

\* Pages for remove_headers_and_footers: up to MaxLines lines a page, up to
\* MaxPages pages a document.
MaxLines == 2
MaxPages == 3
PageLines == {<<>>, <<"H">>, <<"B">>, <<" ", "H">>}
PageTexts == {str_join(ls, "\n") : ls \in SeqsUpTo(PageLines, MaxLines) \ {<<>>}}

\* Texts for extract_sentences_and_metadata: up to MaxSegmentPieces pieces.
MaxSegmentPieces == 5
SegmentPieces ==
    {<<"A">>, <<".", "\n">>, <<".">>, <<" ">>,
     <<"F", "i", "g", " ", "1", ".">>, <<"(", "2", "0", "1", "9", ")">>}
SegmentTexts == {Concat(ps) : ps \in SeqsUpTo(SegmentPieces, MaxSegmentPieces)}
\* The run buffer before the call: empty, or holding an earlier record.
EarlierRecord ==
    [sentence |-> <<"Z">>,
     metadata |-> [title |-> "T0", authors |-> <<"au_0">>, year |-> "2019",
                   citation_format_x |-> <<"c", "0">>, phrase_number |-> 1]]
Buffers == {<<>>, <<EarlierRecord>>}

ParseInit ==
    /\ arg \in [text : ParseTexts, own_citation : OwnCitations, threshold : Thresholds]
    /\ ret = <<>>

call_parse_from_abstract_or_introduction ==
    /\ ret = <<>>
    /\ ret' = <<parse_from_abstract_or_introduction(arg.text, arg.own_citation, arg.threshold)>>
    /\ UNCHANGED arg

CleanInit ==
    /\ \E all_texts \in SeqsUpTo(PageTexts, MaxPages) \ {<<>>} :
         \E k \in 1..Len(all_texts) : arg = [all_texts |-> all_texts, page |-> k]
    /\ ret = <<>>

call_remove_headers_and_footers ==
    /\ ret = <<>>
    /\ ret' = <<remove_headers_and_footers(arg.all_texts[arg.page], arg.all_texts)>>
    /\ UNCHANGED arg

SegmentInit ==
    /\ arg \in [text : SegmentTexts, data : Buffers, paper : {paper_a.meta}]
    /\ ret = <<>>

call_extract_sentences_and_metadata ==
    /\ ret = <<>>
    /\ ret' = <<extract_sentences_and_metadata(arg.data, arg.text, arg.paper)>>
    /\ UNCHANGED arg

(***************************************************************************)
(* Specifications                                                          *)
(***************************************************************************)
\* No Preprocessor run, no call under way.
PipelineIdle ==
    /\ directory = <<>>
    /\ pdf_files = <<>>
    /\ other_files = <<>>
    /\ data = <<>>
    /\ pc = "idle"
    /\ file_i = 0
    /\ documents = <<>>
    /\ page_i = 0
    /\ paper = NoPaper
    /\ error = "none"
    /\ log = <<>>

CallIdle == arg = <<>> /\ ret = <<>>

\* A run of the Preprocessor: enumerate_files, then process_pdfs.
Init == PipelineInit /\ StoreInit /\ CallIdle

Next ==
    \/ enumerate_files /\ UNCHANGED <<storeVars, callVars>>
    \/ load_document /\ UNCHANGED <<storeVars, callVars>>
    \/ extract_metadata /\ UNCHANGED <<storeVars, callVars>>
    \/ process_page /\ UNCHANGED <<storeVars, callVars>>
    \/ process_pdfs_return /\ UNCHANGED <<storeVars, callVars>>

Spec == Init /\ [][Next]_vars

\* Any sequence of operations on stores over one "databases" directory.
InitStore == PipelineIdle /\ StoreInit /\ CallIdle

NextStore ==
    \/ /\ \E name \in IndexNames, data_list \in DataLists : construct(name, data_list)
       /\ UNCHANGED <<pipelineVars, callVars>>
    \/ create_embeddings_and_index /\ UNCHANGED <<pipelineVars, callVars>>
    \/ /\ \E io_fails \in BOOLEAN : save_index_locally(io_fails)
       /\ UNCHANGED <<pipelineVars, callVars>>
    \/ /\ \E io_fails \in BOOLEAN : load_existing_index(io_fails)
       /\ UNCHANGED <<pipelineVars, callVars>>
    \/ /\ \E query \in Queries, k \in 1..MaxK : query_index(query, k)
       /\ UNCHANGED <<pipelineVars, callVars>>

SpecStore == InitStore /\ [][NextStore]_vars

\* One call of parse_from_abstract_or_introduction.
InitParse == PipelineIdle /\ StoreInit /\ ParseInit
NextParse == call_parse_from_abstract_or_introduction /\ UNCHANGED <<pipelineVars, storeVars>>
SpecParse == InitParse /\ [][NextParse]_vars

\* One call of remove_headers_and_footers on a page of a document.
InitClean == PipelineIdle /\ StoreInit /\ CleanInit
NextClean == call_remove_headers_and_footers /\ UNCHANGED <<pipelineVars, storeVars>>
SpecClean == InitClean /\ [][NextClean]_vars

\* One call of extract_sentences_and_metadata.
InitSegment == PipelineIdle /\ StoreInit /\ SegmentInit
NextSegment == call_extract_sentences_and_metadata /\ UNCHANGED <<pipelineVars, storeVars>>
SpecSegment == InitSegment /\ [][NextSegment]_vars

(***************************************************************************)
(* Claims                                                                  *)
(***************************************************************************)
Min(S) == CHOOSE x \in S : \A y \in S : x <= y
Range(s) == {s[i] : i \in 1..Len(s)}
\* The log entries of the pages processed to the end, and of all the pages
\* process_pdfs started on (the ones whose cleaning raised included).
PageEntries == {k \in 1..Len(log) : log[k].kind = "page"}
PageSteps == {k \in 1..Len(log) : log[k].page > 0}
Terminated == pc \in {"done", "raised"}

\* C1: after an ingestion, each (text, metadata) pair of the input has exactly
\* one entry in the index, so the number of entries is the number of distinct
\* pairs ingested.
C1_OneEntryPerPair ==
    (last.op = "create" /\ last.ok) =>
        LET docs == index[1].docs
        IN  /\ \A i, j \in 1..Len(docs) : docs[i] = docs[j] => i = j
            /\ Len(docs) = Cardinality(Range(data_variable))

\* C2: when the metadata extractor fails for a document, only that document is
\* given up: once the run has ended, every later document of pdf_files has
\* been handed to the loader.
C2_MetadataFailureSkipsOneDocument ==
    Terminated =>
        \A k \in 1..Len(log) :
            log[k].kind = "RuntimeError" =>
                \A f \in (log[k].file + 1)..Len(pdf_files) :
                    \E j \in 1..Len(log) :
                        log[j].file = f /\ log[j].kind \in {"load", "LoadError"}

\* C3, the state part: the pages of a document are processed in order from
\* its first page, and none after a page on which the stop was signalled; a
\* run that returns has loaded every document of pdf_files.
C3_PagesStopAtSignal ==
    /\ \A k \in PageSteps :
         IF log[k].page = 1
         THEN log[k - 1].kind = "metadata" /\ log[k - 1].file = log[k].file
         ELSE /\ log[k - 1].kind = "page"
              /\ log[k - 1].file = log[k].file
              /\ log[k - 1].page = log[k].page - 1
              /\ ~log[k - 1].stop
    /\ pc = "done" =>
         \A f \in 1..Len(pdf_files) :
             \E k \in 1..Len(log) : log[k].kind = "load" /\ log[k].file = f

\* C3, the step part: the page step that signals the stop leaves the inner
\* loop for the next document of pdf_files, and does not end the run.
C3_StopGoesToNextDocument ==
    (pc = "for_page" /\ pc' # "raised" /\ log'[Len(log')].stop) =>
        /\ pc' = "for_pdf_file"
        /\ file_i' = file_i + 1

\* C3: once the section extractor signals the stop on a page of a document, no
\* later page of that document is processed, and the documents that follow it
\* in pdf_files are still processed, each from its first page.
C3_StopEndsDocumentOnly == []C3_PagesStopAtSignal /\ [][C3_StopGoesToNextDocument]_vars

\* C3's case: the stop was signalled before the last page of a document, and a
\* page of a later document has been processed since.
C3_Witness ==
    \E k, j \in PageEntries :
        /\ log[k].stop
        /\ log[k].page < Len(FileNamed(pdf_files[log[k].file]).pages)
        /\ k < j
        /\ log[j].file > log[k].file
        /\ log[j].page = 1

\* The records process_pdfs appended for the document at index f of pdf_files,
\* in emission order.
RecordsOfFile(f) ==
    LET ks == {k \in PageEntries : log[k].file = f}
    IN  IF ks = {} THEN <<>>
        ELSE SubSeq(data, log[Min(ks)].before + 1, log[Max(ks)].after)

\* C4: the phrase_number values of a document's records, in emission order
\* over all of its pages, are 1, 2, 3, ...
C4_PhraseNumbersPerDocument ==
    \A f \in 1..Len(pdf_files) :
        \A i \in 1..Len(RecordsOfFile(f)) :
            RecordsOfFile(f)[i].metadata.phrase_number = i

\* The positions at which a keyword of kws occurs in text.
Occurrences(kws, text) == {i \in 1..Len(text) : \E kw \in kws : MatchAt(text, kw, i)}

\* C5: parse_from_abstract_or_introduction returns the text from the first
\* start keyword up to, not including, the first reference keyword with
\* stop_signal true when both occur; the text from the first start keyword to
\* the end with stop_signal false when only a start keyword occurs; the whole
\* text with stop_signal false when neither occurs.
C5_SectionWindow ==
    ret # <<>> =>
        LET text == arg.text
            starts == Occurrences(abstract_regex, text)
            ends == Occurrences(references_regex, text)
        IN  /\ (starts # {} /\ ends # {}) =>
                 ret[1] = [text |-> SubSeq(text, Min(starts), Min(ends) - 1), stop |-> TRUE]
            /\ (starts # {} /\ ends = {}) =>
                 ret[1] = [text |-> SubSeq(text, Min(starts), Len(text)), stop |-> FALSE]
            /\ (starts = {} /\ ends = {}) =>
                 ret[1] = [text |-> text, stop |-> FALSE]

\* C5's case: text precedes the start keyword, the reference keyword comes
\* after it, and the window returned is the text between them.
C5_Witness ==
    /\ ret # <<>>
    /\ Occurrences(abstract_regex, arg.text) # {}
    /\ Occurrences(references_regex, arg.text) # {}
    /\ 1 < Min(Occurrences(abstract_regex, arg.text))
    /\ Min(Occurrences(abstract_regex, arg.text)) < Min(Occurrences(references_regex, arg.text))
    /\ Min(Occurrences(references_regex, arg.text)) + Len(References) <= Len(arg.text)
    /\ ret[1].stop
    /\ Len(ret[1].text) > Len(Abstract)

\* The lines of the page remove_headers_and_footers was called on.
CalledPageLines == str_split(arg.all_texts[arg.page], "\n")

\* C6: on a page of a single (non-empty) line, remove_headers_and_footers
\* raises nothing and does not return the empty text.
C6_SingleLinePageSurvives ==
    (ret # <<>> /\ Len(CalledPageLines) = 1 /\ CalledPageLines[1] # <<>>) =>
        ret[1].error = "none" /\ ret[1].value # <<>>

\* The non-empty lines of items that no other non-empty line outnumbers.
NonEmptyModes(items) ==
    {x \in Range(items) \ {<<>>} :
        \A y \in Range(items) \ {<<>>} : Count(items, y) <= Count(items, x)}

Unpadded(items) == \A x \in Range(items) : strip(x) = x

\* C7: on a page of at least two lines, the first line is removed exactly when
\* it is the most frequent non-empty first line of the document's pages, the
\* last line exactly when it is the most frequent non-empty last line, and
\* the other lines are kept in order.  Stated for documents where the two
\* most frequent lines are unique and no first or last line has surrounding
\* whitespace, so that "equals" and "most frequent" have one reading.
C7_MajorityHeaderFooter ==
    LET lines == CalledPageLines
        firsts == NonEmptyModes(first_lines(arg.all_texts))
        lasts == NonEmptyModes(last_lines(arg.all_texts))
        lo == IF lines[1] \in firsts THEN 2 ELSE 1
        hi == IF Last(lines) \in lasts THEN Len(lines) - 1 ELSE Len(lines)
    IN  (/\ ret # <<>>
         /\ Len(lines) >= 2
         /\ Cardinality(firsts) = 1
         /\ Cardinality(lasts) = 1
         /\ Unpadded(first_lines(arg.all_texts))
         /\ Unpadded(last_lines(arg.all_texts)))
        => ret[1] = Returned(str_join(SubSeq(lines, lo, hi), "\n"))

\* The units of the segmenter for a text, and whether a unit is emitted.
UnitsOf(text) == split_into_paragraphs(text)
IsCaption(unit) == figure_pattern_match(strip(unit))
IsEmitted(unit) ==
    strip(unit) # <<>> /\ ~IsCaption(unit) /\ ~citation_regex_match(strip(unit))

\* C8: one call of extract_sentences_and_metadata appends exactly the
\* non-empty units that pass the caption filter and the citation filter, in
\* their order, numbered 1..n: a dropped unit takes no number.
C8_EmittedUnitsNumbered ==
    ret # <<>> =>
        LET kept == SelectSeq(UnitsOf(arg.text), IsEmitted)
            buf == ret[1]
            n == Len(arg.data)
        IN  /\ Len(buf) = n + Len(kept)
            /\ SubSeq(buf, 1, n) = arg.data
            /\ \A i \in 1..Len(kept) :
                 /\ buf[n + i].sentence = strip(kept[i])
                 /\ buf[n + i].metadata.phrase_number = i

\* C8's case: a caption and a citation line were dropped before a unit that
\* was emitted, into a buffer that already held a record.
C8_Witness ==
    /\ ret # <<>>
    /\ arg.data # <<>>
    /\ Len(ret[1]) > Len(arg.data)
    /\ \E i, j, k \in 1..Len(UnitsOf(arg.text)) :
         /\ i < k /\ j < k
         /\ IsCaption(UnitsOf(arg.text)[i])
         /\ ~IsCaption(UnitsOf(arg.text)[j])
         /\ citation_regex_match(strip(UnitsOf(arg.text)[j]))
         /\ IsEmitted(UnitsOf(arg.text)[k])

\* What query_index answers after a load_existing_index that follows now,
\* compared with what it answers now, for every query and k and whether or
\* not the read fails.
LoadAnswersAsNow ==
    \A io_fails \in BOOLEAN, query \in Queries, k \in 1..MaxK :
        query_result(load_result(io_fails).index, query, k) = query_result(index, query, k)

\* C9 as claimed: in every state, a save followed by a load of the same index
\* name leaves the store answering every query as before the save.
C9_SaveLoadAnywhere == last.op = "save" => LoadAnswersAsNow

\* C9, amended: whenever save_index_locally returns True, a load of the same
\* index name that follows leaves the store answering every query, for every
\* k, with the same results in the same order as before the save.
C9_SaveLoadRoundTrip == (last.op = "save" /\ last.ok) => LoadAnswersAsNow

\* C9's case: an index of two entries, which a query ranks in the order
\* opposite to their insertion, has been saved over an older one.
C9_Witness ==
    /\ last.op = "save"
    /\ last.ok
    /\ Len(index[1].docs) = 2
    /\ \E query \in Queries :
         query_result(index, query, 2).value[1].sentence = index[1].docs[2].page_content
    /\ index[1].docs[1] # index[1].docs[2]
    /\ databases[load_path(index_name)] = index

\* One step of the store, for C10: a query of a store without index answers the
\* empty list, raises nothing and changes nothing of the store; a load that
\* fails leaves self.index as it was.
C10_QueryWithoutIndexStep ==
    /\ (last'.op = "query" /\ index = NoIndex) =>
         /\ last'.results = <<>>
         /\ last'.error = "none"
         /\ UNCHANGED <<index_name, data_variable, index, databases>>
    /\ (last'.op = "load" /\ ~last'.ok) => index' = index

\* C10: query_index on a store in which no index was created or loaded, a
\* failed load included, returns the empty list, raises nothing and leaves
\* the store's state unchanged, for every query and k.
C10_QueryWithoutIndex == [][C10_QueryWithoutIndexStep]_vars

\* C10's case: a store whose load failed, and which has no index, was queried.
C10_Witness ==
    /\ last.op = "query"
    /\ last.failed_load
    /\ index = NoIndex
    /\ last.results = <<>>

\* The log entries of the extractor's answers for the document at index f.
MetadataCalls(f) == {j \in 1..Len(log) : log[j].kind = "metadata" /\ log[j].file = f}

\* C11: every record of the run buffer was appended by a page of one document,
\* for which the metadata extractor answered exactly once, and the record's
\* title, authors, year and citation are the ones of that answer, not those of
\* another document.
C11_RecordsCarryOwnMetadata ==
    /\ \A i \in 1..Len(data) :
         \E k \in PageEntries : log[k].before < i /\ i <= log[k].after
    /\ \A k \in PageEntries :
         LET pdf_file == pdf_files[log[k].file]
             answer == chain_invoke(pdf_file, FALSE).value
         IN  /\ Cardinality(MetadataCalls(log[k].file)) = 1
             /\ \A i \in (log[k].before + 1)..log[k].after :
                  /\ data[i].metadata.title = answer.title
                  /\ data[i].metadata.authors = answer.authors
                  /\ data[i].metadata.year = answer.year
                  /\ data[i].metadata.citation_format_x = answer.citation

\* C11's case: the buffer holds records of two documents of one run, the
\* later document's records after the earlier one's.
C11_Witness ==
    \E k, j \in PageEntries :
        /\ log[k].file < log[j].file
        /\ log[k].after > log[k].before
        /\ log[j].after > log[j].before
        /\ data[log[k].after].metadata.title # data[log[j].after].metadata.title

\* s is a prefix of t.
IsPrefix(s, t) == Len(s) <= Len(t) /\ SubSeq(t, 1, Len(s)) = s

\* C12, one step: the buffer after the step starts with the buffer before it,
\* and a step that ends the run on a load failure or a metadata-extraction
\* failure leaves the buffer as it was.
C12_AppendOnlyStep ==
    /\ IsPrefix(data, data')
    /\ (pc' = "raised" /\ error' \in {"LoadError", "RuntimeError"}) => data' = data

\* C12: the run buffer is append-only: no step removes, rewrites or reorders a
\* record already in it, so after a document load failure or a
\* metadata-extraction failure the records of the documents processed before
\* are still there, in their order.
C12_BufferAppendOnly == [][C12_AppendOnlyStep]_vars

\* C12's case: the run ended on a load failure or a metadata-extraction
\* failure, and the buffer holds the records of a document processed before.
C12_Witness ==
    /\ pc = "raised"
    /\ error \in {"LoadError", "RuntimeError"}
    /\ \E f \in 1..(file_i - 1) :
         /\ RecordsOfFile(f) # <<>>
         /\ RecordsOfFile(f) = SubSeq(data, 1, Len(RecordsOfFile(f)))

\* C13: when a reference keyword occurs in the text, with or without a start
\* keyword and whichever comes first, parse_from_abstract_or_introduction
\* returns stop_signal true and a window taken from the text before the first
\* occurrence of the reference keyword.
C13_WindowEndsBeforeReferences ==
    ret # <<>> =>
        LET text == arg.text
            ends == Occurrences(references_regex, text)
        IN  ends # {} =>
                /\ ret[1].stop
                /\ \E a \in 1..Min(ends), b \in 0..(Min(ends) - 1) :
                       ret[1].text = SubSeq(text, a, b)

\* Lines 116-117 for the window of one page of a paper whose citation is
\* own_citation: the sentences of the records the page adds to an empty buffer.
EmittedSentences(window, own_citation) ==
    LET meta == [title |-> "T", authors |-> <<"au">>, year |-> "2020",
                 citation |-> own_citation]
        buf == IF window # <<>>
               THEN extract_sentences_and_metadata(<<>>, window, meta)
               ELSE <<>>
    IN  [i \in 1..Len(buf) |-> buf[i].sentence]

\* C14: the window and the stop signal parse_from_abstract_or_introduction
\* returned for a text are the ones every other own_citation and threshold
\* give on the same text, and the sentences emitted from the window are the
\* same for a paper of every other own citation.
C14_ResultIgnoresOwnCitation ==
    ret # <<>> =>
        /\ \A own_citation \in OwnCitations, threshold \in Thresholds :
               parse_from_abstract_or_introduction(arg.text, own_citation, threshold)
                   = ret[1]
        /\ \A own_citation \in OwnCitations :
               EmittedSentences(
                   parse_from_abstract_or_introduction(
                       arg.text, own_citation, arg.threshold).text,
                   own_citation)
                   = EmittedSentences(ret[1].text, arg.own_citation)

\* C14's case: the call was made with an own citation and a threshold under
\* which is_own_citation takes the window returned for the paper's own
\* citation, and under another own citation or threshold it would not.
C14_Witness ==
    /\ ret # <<>>
    /\ ret[1].text # <<>>
    /\ arg.own_citation # <<>>
    /\ is_own_citation(ret[1].text, arg.own_citation, arg.threshold)
    /\ \E own_citation \in OwnCitations, threshold \in Thresholds :
           ~is_own_citation(ret[1].text, own_citation, threshold)

====
